---------------------------- MODULE Spec2Model ----------------------------
(***************************************************************************)
(* The two demonstration notebooks held in                                 *)
(* binder/TotalVariationDeblurring.ipynb: the total-variation deblurring   *)
(* notebook (lines 1-182) and the tomography notebook (lines 184-554).     *)
(*                                                                         *)
(* A notebook is a list of statements that one kernel executes top to      *)
(* bottom.  A statement reads names of the kernel's namespace, binds or    *)
(* modifies names, and may call into the imaging library; an exception     *)
(* raised by a statement ends the run, since no cell holds a try/except.   *)
(* Both notebooks may be run, in either order, in one kernel.              *)
(*                                                                         *)
(* Numbers are binary floating-point numbers, held as rationals: every      *)
(* arithmetic operation returns the exact result rounded to the nearest    *)
(* number with a significand of Precision bits, ties to even (IEEE 754     *)
(* with a shorter significand than the 53 bits of a Python float; the      *)
(* exponent range is not bounded).  The library's own algorithms (the      *)
(* FISTA and PDHG loops, the proximal maps, the projectors) are not part   *)
(* of the repository and are not modelled: a library call is a step that   *)
(* either returns or raises.                                               *)
(***************************************************************************)
EXTENDS Integers, Sequences, FiniteSets

\* ------------------------------------------------------------- bounds
\* Entries of the (abstracted) sinogram arrays.
SinoLen == 2
\* A noise sample lies in -MaxNoise..MaxNoise; a noiseless entry is 0 (the ray
\* misses the phantom) or MaxSino.
MaxNoise == 1
MaxSino == 1
\* The Gaussian weights are drawn as k/2^GaussBits, k in 1..2^GaussBits.
GaussBits == 2
\* The norm estimate K.norm() returns is drawn from n and n/2, n in 1..MaxNorm.
MaxNorm == 3
\* Bits of the significand of a floating-point number.
Precision == 6

\* --------------------------------------------------- program constants
ks == 5
ksigma == 2
max_iteration == 200

\* ---------------------------------------------------------- rationals
RECURSIVE GCD(_, _)
GCD(a, b) == IF b = 0 THEN a ELSE GCD(b, a % b)

Abs(x) == IF x < 0 THEN -x ELSE x

\* No number (a name not assigned yet).
NoRat == [n |-> 0, d |-> 0]

\* The rational n/d in lowest terms, d > 0.
Rat(n, d) ==
  IF d = 0 THEN NoRat
  ELSE LET g == GCD(Abs(n), Abs(d))
           s == IF d < 0 THEN -1 ELSE 1
       IN  [n |-> s * (n \div g), d |-> s * (d \div g)]
RMul(a, b) == Rat(a.n * b.n, a.d * b.d)
RLeq(a, b) == a.n * b.d <= b.n * a.d
RLt(a, b) == a.n * b.d < b.n * a.d

RAdd(a, b) == Rat(a.n * b.d + b.n * a.d, a.d * b.d)
RDiv(a, b) == Rat(a.n * b.d, a.d * b.n)

RECURSIVE Pow2(_)
Pow2(k) == IF k = 0 THEN 1 ELSE 2 * Pow2(k - 1)

\* ------------------------------------------------------------- floats
\* n/d rounded to the nearest integer, ties to even (n >= 0, d > 0).
RoundHalfEven(n, d) ==
  LET q == n \div d
      r == n % d
  IN  IF 2 * r > d \/ (2 * r = d /\ q % 2 = 1) THEN q + 1 ELSE q
RECURSIVE ExpUp(_, _)
\* The least k with n * 2^k / d >= 2^(Precision-1).
ExpUp(n, d) == IF n >= Pow2(Precision - 1) * d THEN 0 ELSE 1 + ExpUp(2 * n, d)
RECURSIVE ExpDown(_, _)
\* The least k with n / (d * 2^k) < 2^Precision.
ExpDown(n, d) == IF n < Pow2(Precision) * d THEN 0 ELSE 1 + ExpDown(n, 2 * d)

\* The floating-point number nearest to the rational r.
Fl(r) ==
  IF r.n = 0 \/ r.d = 0 THEN r
  ELSE LET s == IF r.n < 0 THEN -1 ELSE 1
           a == Abs(r.n)
           up == ExpUp(a, r.d)
           down == ExpDown(a, r.d)
       IN  IF up > 0
             THEN Rat(s * RoundHalfEven(a * Pow2(up), r.d), Pow2(up))
             ELSE Rat(s * RoundHalfEven(a, r.d * Pow2(down)) * Pow2(down), 1)
\* x + y, x * y, x / y on floats.
FAdd(a, b) == Fl(RAdd(a, b))
FMul(a, b) == Fl(RMul(a, b))
FDiv(a, b) == Fl(RDiv(a, b))

\* ------------------------------------------------------------- arrays
RECURSIVE SumOver(_, _)
\* The sum of f[x] over the finite set S.
SumOver(f, S) ==
  IF S = {} THEN 0
  ELSE LET x == CHOOSE y \in S : TRUE IN f[x] + SumOver(f, S \ {x})

RECURSIVE GCDOver(_, _)
GCDOver(f, S) ==
  IF S = {} THEN 0
  ELSE LET x == CHOOSE y \in S : TRUE IN GCD(Abs(f[x]), GCDOver(f, S \ {x}))

RECURSIVE CommonDen(_, _)
\* The least common denominator of the rationals f[x], x in S.
CommonDen(f, S) ==
  IF S = {} THEN 1
  ELSE LET x == CHOOSE y \in S : TRUE
           c == CommonDen(f, S \ {x})
       IN  (c \div GCD(c, f[x].d)) * f[x].d

\* A numpy array of floats: integer numerators num over one denominator
\* den, indexed by tuples of the given shape (0-based).
NoArr == [num |-> <<>>, den |-> 0, shape |-> <<>>]
Arr(num, den, shape) ==
  LET g == GCD(GCDOver(num, DOMAIN num), den)
  IN  [num |-> [x \in DOMAIN num |-> num[x] \div g], den |-> den \div g,
       shape |-> shape]
\* The array with the entries f[x].
FromRats(f, shape) ==
  LET D == CommonDen(f, DOMAIN f)
  IN  Arr([x \in DOMAIN f |-> f[x].n * (D \div f[x].d)], D, shape)
\* array[x]
Entry(a, x) == Rat(a.num[x], a.den)

\* The entries of a 2D array in memory order (row by row).
Flat(a) ==
  [k \in 1..(a.shape[1] * a.shape[2]) |->
     Entry(a, <<(k - 1) \div a.shape[2], (k - 1) % a.shape[2]>>)]
RECURSIVE AddUpTo(_, _, _, _, _)
\* acc + seq[i] + seq[i+step] + ... up to index last, rounding every sum.
AddUpTo(seq, i, step, last, acc) ==
  IF i > last THEN acc
  ELSE LET sum == FAdd(acc, seq[i])
       IN  IF sum.d = 0 THEN sum ELSE AddUpTo(seq, i + step, step, last, sum)
\* The order in which array.sum() adds the entries is the library's: one
\* after the other, or (numpy, for 8 to 128 entries) in eight interleaved
\* partial sums that are added in pairs, the remainder one after the other.
SumOrders == {"sequential", "unrolled"}
Sequential(seq) == AddUpTo(seq, 2, 1, Len(seq), seq[1])
Unrolled(seq) ==
  LET n == Len(seq)
      body == n - (n % 8)
      r(j) == AddUpTo(seq, j + 8, 8, body, seq[j])
  IN  IF n < 8 THEN Sequential(seq)
      ELSE AddUpTo(seq, body + 1, 1, n,
                   FAdd(FAdd(FAdd(r(1), r(2)), FAdd(r(3), r(4))),
                        FAdd(FAdd(r(5), r(6)), FAdd(r(7), r(8)))))
\* array.sum()
ArrSum(a, order) ==
  IF order = "sequential" THEN Sequential(Flat(a)) ELSE Unrolled(Flat(a))
\* array ** 2
ArrSquare(a) ==
  FromRats([x \in DOMAIN a.num |-> FMul(Entry(a, x), Entry(a, x))], a.shape)
\* array / scalar
ArrDiv(a, r) == FromRats([x \in DOMAIN a.num |-> FDiv(Entry(a, x), r)], a.shape)
\* np.transpose(array): a 1D array is its own transpose.
Transpose(a) ==
  IF Len(a.shape) = 2
    THEN [num |-> [x \in {<<y[2], y[1]>> : y \in DOMAIN a.num} |-> a.num[<<x[2], x[1]>>]],
          den |-> a.den, shape |-> <<a.shape[2], a.shape[1]>>]
    ELSE a
Max(x, y) == IF x < y THEN y ELSE x
\* array * array, with numpy's broadcasting of an axis of length 1.
ArrMul(a, b) ==
  IF Len(a.shape) = 2 /\ Len(b.shape) = 2
    THEN LET rows == Max(a.shape[1], b.shape[1])
             cols == Max(a.shape[2], b.shape[2])
             Get(m, i, j) == Entry(m, <<IF m.shape[1] = 1 THEN 0 ELSE i,
                                        IF m.shape[2] = 1 THEN 0 ELSE j>>)
         IN  FromRats([x \in (0..(rows - 1)) \X (0..(cols - 1)) |->
                         FMul(Get(a, x[1], x[2]), Get(b, x[1], x[2]))],
                      <<rows, cols>>)
    ELSE FromRats([x \in DOMAIN a.num |-> FMul(Entry(a, x), Entry(b, x))], a.shape)

\* ---------------------------------------------------------- statements
\* One statement of a code cell: its first source line, the pipeline step it
\* belongs to, what it does (op), the names it reads, the names it binds
\* (writes), the names whose object it modifies in place (mutates), and
\* whether it runs library code, which may raise.
S(line, step, op, reads, writes, mutates, raises) ==
  [line |-> line, step |-> step, op |-> op, reads |-> reads,
   writes |-> writes, mutates |-> mutates, raises |-> raises]

Import(line, names) == S(line, "setup", "import", {}, names, {}, TRUE)
Literal(line, step, name) == S(line, step, "literal", {}, {name}, {}, FALSE)
Call(line, step, reads, writes) == S(line, step, "call", reads, writes, {}, TRUE)
Show(line, step, reads) == S(line, step, "show", reads, {}, {}, TRUE)
Shell(line) == S(line, "setup", "shell", {}, {}, {}, FALSE)

\* The total-variation deblurring notebook.
Deblurring == <<
  Import(40, {"FISTA"}),
  Import(41, {"BlurringOperator"}),
  Import(42, {"L2NormSquared", "LeastSquares", "TotalVariation"}),
  Import(43, {"dataexample", "noise"}),
  Import(44, {"show2D"}),
  Import(45, {"FGP_TV"}),
  Import(47, {"np"}),
  Call(75, "load", {"dataexample"}, {"data"}),
  Call(78, "load", {"data"}, {"ig"}),
  Literal(97, "psf", "ks"),
  Literal(98, "psf", "ksigma"),
  S(101, "psf", "exp", {"np", "ks", "ksigma"}, {"w"}, {}, TRUE),
  S(102, "psf", "reshape", {"w", "ks"}, {}, {"w"}, TRUE),
  S(103, "psf", "outer", {"w", "np"}, {"PSF"}, {}, TRUE),
  S(104, "psf", "div_sumsq", {"PSF"}, {"PSF"}, {}, TRUE),
  S(105, "psf", "div_sum", {"PSF"}, {"PSF"}, {}, TRUE),
  Show(108, "psf", {"show2D", "PSF"}),
  Call(111, "blur_operator", {"BlurringOperator", "PSF", "ig"}, {"BOP"}),
  Call(112, "noise", {"noise", "BOP", "data"}, {"blurred_noisy"}),
  Show(115, "noise", {"show2D", "blurred_noisy"}),
  Literal(139, "fista", "alpha"),
  Call(140, "fista", {"alpha", "TotalVariation"}, {"G"}),
  Call(141, "fista", {"LeastSquares", "BOP", "blurred_noisy"}, {"F"}),
  S(143, "fista", "FISTA", {"FISTA", "ig", "F", "G"}, {"fista"}, {}, TRUE),
  S(145, "fista", "fista_run", {"fista"}, {}, {"fista"}, TRUE),
  Show(155, "display", {"show2D", "data", "blurred_noisy", "fista"}) >>

\* The tomography notebook.
Tomography == <<
  Shell(194),
  Import(205, {"condacolab"}),
  Call(220, "setup", {"condacolab"}, {}),
  Shell(235),
  Shell(236),
  Import(271, {"ImageGeometry"}),
  Import(272, {"AcquisitionGeometry"}),
  Import(274, {"L2NormSquared", "BlockFunction", "MixedL21Norm", "IndicatorBox"}),
  Import(275, {"GradientOperator", "BlockOperator"}),
  Import(276, {"PDHG"}),
  Import(277, {"ProjectionOperator"}),
  Import(278, {"FBP"}),
  Import(279, {"TomoPhantom"}),
  Import(280, {"show2D"}),
  Import(281, {"noise"}),
  Import(283, {"plt"}),
  Import(285, {"np"}),
  Import(300, {"cil"}),
  Call(301, "setup", {"cil"}, {}),
  Literal(322, "geometry", "N"),
  S(323, "geometry", "literal", {"N"}, {"detectors"}, {}, FALSE),
  Call(326, "geometry", {"np"}, {"angles"}),
  Call(329, "geometry", {"AcquisitionGeometry", "angles", "detectors"}, {"ag"}),
  Call(333, "geometry", {"ag"}, {"ig"}),
  Call(336, "phantom", {"TomoPhantom", "ig"}, {"phantom"}),
  S(362, "projection_operator", "ProjectionOperator",
    {"ProjectionOperator", "ig", "ag"}, {"A"}, {}, TRUE),
  S(365, "sinogram", "direct", {"A", "phantom"}, {"sino"}, {}, TRUE),
  Literal(368, "sinogram", "gaussian_var"),
  Literal(369, "sinogram", "gaussian_mean"),
  S(371, "sinogram", "normal", {"np", "gaussian_mean", "gaussian_var", "ag"},
    {"n1"}, {}, TRUE),
  S(373, "sinogram", "allocate", {"ag"}, {"noisy_sino"}, {}, TRUE),
  S(374, "sinogram", "fill", {"noisy_sino", "n1", "sino"}, {}, {"noisy_sino"}, TRUE),
  S(375, "sinogram", "clip", {"noisy_sino"}, {}, {"noisy_sino"}, TRUE),
  Show(378, "sinogram", {"show2D", "phantom", "sino", "noisy_sino"}),
  S(404, "fbp", "FBP", {"FBP", "ig", "ag", "noisy_sino"}, {"fbp_recon"}, {}, TRUE),
  Show(407, "fbp", {"show2D", "phantom", "fbp_recon"}),
  S(469, "pdhg", "GradientOperator", {"GradientOperator", "ig"}, {"Grad"}, {}, TRUE),
  S(470, "pdhg", "BlockOperator", {"BlockOperator", "A", "Grad"}, {"K"}, {}, TRUE),
  Literal(473, "pdhg", "alpha"),
  S(474, "pdhg", "L2NormSquared", {"L2NormSquared", "noisy_sino"}, {"f1"}, {}, TRUE),
  Call(475, "pdhg", {"alpha", "MixedL21Norm"}, {"f2"}),
  Call(476, "pdhg", {"BlockFunction", "f1", "f2"}, {"f"}),
  Call(479, "pdhg", {"IndicatorBox"}, {"g"}),
  S(482, "pdhg", "norm", {"K"}, {"normK"}, {}, TRUE),
  S(483, "pdhg", "sigma", {"normK"}, {"sigma"}, {}, TRUE),
  S(484, "pdhg", "tau", {"normK"}, {"tau"}, {}, TRUE),
  S(487, "pdhg", "PDHG", {"PDHG", "f", "g", "K", "sigma", "tau"}, {"pdhg"}, {}, TRUE),
  S(490, "pdhg", "pdhg_run", {"pdhg"}, {}, {"pdhg"}, TRUE),
  Show(515, "compare", {"show2D", "pdhg", "fbp_recon", "phantom"}),
  Call(518, "compare", {"plt"}, {}),
  Show(519, "compare", {"plt", "phantom", "N"}),
  Show(520, "compare", {"plt", "fbp_recon", "N"}),
  Show(521, "compare", {"plt", "pdhg", "N"}),
  Call(522, "compare", {"plt"}, {}),
  Call(523, "compare", {"plt"}, {}),
  Call(524, "compare", {"plt"}, {}) >>

Notebooks == {1, 2}

\* The index in cells of the statement that starts at the given source line.
At(cells, line) == CHOOSE i \in 1..Len(cells) : cells[i].line = line
\* cells with the statements at lines a and b exchanged.
Exchanged(cells, a, b) ==
  [i \in 1..Len(cells) |->
     IF i = At(cells, a) THEN cells[At(cells, b)]
     ELSE IF i = At(cells, b) THEN cells[At(cells, a)]
     ELSE cells[i]]
Without(cells, line) ==
  LET keep == {i \in 1..Len(cells) : cells[i].line # line}
      Nth(k) == CHOOSE i \in keep : Cardinality({j \in keep : j < i}) = k - 1
  IN  [k \in 1..Cardinality(keep) |-> cells[Nth(k)]]

\* Mutant: the deblurring notebook shows its result before fista.run().
CellsDisplayBeforeRun(n) ==
  IF n = 1 THEN Exchanged(Deblurring, 145, 155) ELSE Tomography
\* Mutant: the tomography notebook shows its comparison before pdhg.run().
CellsCompareBeforeRun(n) ==
  IF n = 1 THEN Deblurring ELSE Exchanged(Tomography, 490, 515)
\* Mutant: the tomography notebook does not assign ig.
CellsWithoutIg(n) ==
  IF n = 1 THEN Deblurring ELSE Without(Tomography, 333)

\* The statements of notebook n, in the order a run executes them.
Cells(n) == IF n = 1 THEN Deblurring ELSE Tomography

Touched(st) == st.writes \cup st.mutates
NamesOf(cells) ==
  UNION {Touched(cells[i]) \cup cells[i].reads : i \in 1..Len(cells)}
Names == NamesOf(Deblurring) \cup NamesOf(Tomography)


\* -------------------------------------------------------------- state
VARIABLES
  nb,          \* the notebook being run (0: none yet)
  pc,          \* index in Cells(nb) of the next statement
  status,      \* "idle", "running", "failed" or "done"
  error,       \* "", "NameError" or "LibraryError"
  ran,         \* the notebooks opened in this kernel
  ns,          \* the kernel's namespace: name -> binding
  shown,       \* what the display calls of the run have shown
  trace,       \* the pipeline steps of the run, in the order they were entered
  w, PSF,      \* deblurring: the 1D weights and the point-spread function
  fista,       \* deblurring: the FISTA object
  ops,         \* tomography: the operators A, Grad and K
  sino, n1, noisy_sino,   \* tomography: sinogram, noise, noisy sinogram
  fbp_recon,   \* tomography: the FBP reconstruction (the data it was given)
  f1,          \* tomography: the data-fidelity term (the object it refers to)
  normK, sigma, tau,      \* tomography: the step sizes
  pdhg         \* tomography: the PDHG object

kernel == <<nb, pc, status, error, ran, ns, shown, trace>>
deblur == <<w, PSF, fista>>
tomo == <<ops, sino, n1, noisy_sino, fbp_recon, f1, normK, sigma, tau, pdhg>>
vars == <<kernel, deblur, tomo>>

Unbound == [owner |-> 0, def |-> 0, mod |-> 0, deps |-> {}]
NoOp == [made |-> FALSE, blocks |-> <<>>]
NoNorm == [of |-> "", val |-> NoRat]
NoFista == [state |-> "none", max_iteration |-> 0]
NoPdhg == [state |-> "none", operator |-> "", sigma |-> NoRat, tau |-> NoRat,
           max_iteration |-> 0, data |-> <<>>]
NoRecon == [made |-> FALSE, data |-> <<>>]

Init ==
  /\ nb = 0 /\ pc = 0 /\ status = "idle" /\ error = "" /\ ran = {}
  /\ ns = [x \in Names |-> Unbound]
  /\ shown = {} /\ trace = <<>>
  /\ w = NoArr /\ PSF = NoArr /\ fista = NoFista
  /\ ops = [o \in {"A", "Grad", "K"} |-> NoOp]
  /\ sino = <<>> /\ n1 = <<>> /\ noisy_sino = <<>>
  /\ fbp_recon = NoRecon /\ f1 = ""
  /\ normK = NoNorm /\ sigma = NoRat /\ tau = NoRat
  /\ pdhg = NoPdhg

Running == status = "running" /\ pc \in 1..Len(Cells(nb))
Stmt == Cells(nb)[pc]
Bound(x) == ns[x].owner # 0
\* Every name the statement reads is bound: otherwise it raises NameError.
ReadsBound(st) == \A x \in st.reads : Bound(x)

\* The namespace after the statement st of notebook n has run: the names it
\* binds are (re)bound, the objects it modifies keep their binding; both
\* depend on everything the statement read.
Executed(st, n) ==
  LET deps == {n} \cup UNION {ns[x].deps : x \in st.reads}
  IN  [x \in Names |->
         IF x \in st.writes
           THEN [owner |-> n, def |-> st.line, mod |-> st.line, deps |-> deps]
         ELSE IF x \in st.mutates
           THEN [ns[x] EXCEPT !.mod = st.line, !.deps = @ \cup deps]
         ELSE ns[x]]

Entered(step) == IF trace # <<>> /\ trace[Len(trace)] = step THEN trace
                 ELSE Append(trace, step)

\* A statement of the given kind runs to its end, with `effect` on the data;
\* a read of an unbound name raises NameError instead and ends the run.
Exec(op, effect) ==
  /\ Running
  /\ Stmt.op = op
  /\ IF ReadsBound(Stmt)
       THEN /\ ns' = Executed(Stmt, nb)
            /\ pc' = pc + 1
            /\ trace' = Entered(Stmt.step)
            /\ effect
            /\ UNCHANGED <<nb, status, error, ran>>
       ELSE /\ status' = "failed"
            /\ error' = "NameError"
            /\ UNCHANGED <<nb, pc, ran, ns, shown, trace, deblur, tomo>>

\* A notebook is opened in the kernel and run from its first cell.  Each
\* notebook is run once; the second is opened when the first has run to its
\* end.  The namespace is kept; the data of the earlier run is followed from
\* here on through its namespace entries only.
OpenNotebook(n) ==
  /\ status \in {"idle", "done"}
  /\ n \notin ran
  /\ nb' = n /\ pc' = 1 /\ status' = "running" /\ error' = ""
  /\ ran' = ran \cup {n}
  /\ shown' = {} /\ trace' = <<>>
  /\ w' = NoArr /\ PSF' = NoArr /\ fista' = NoFista
  /\ ops' = [o \in {"A", "Grad", "K"} |-> NoOp]
  /\ sino' = <<>> /\ n1' = <<>> /\ noisy_sino' = <<>>
  /\ fbp_recon' = NoRecon /\ f1' = ""
  /\ normK' = NoNorm /\ sigma' = NoRat /\ tau' = NoRat
  /\ pdhg' = NoPdhg
  /\ UNCHANGED ns

\* The last cell has run.
Finish ==
  /\ status = "running"
  /\ pc = Len(Cells(nb)) + 1
  /\ status' = "done"
  /\ UNCHANGED <<nb, pc, error, ran, ns, shown, trace, deblur, tomo>>

\* Mutant: the exception is caught and the run goes on with the next statement.
LibraryRaiseCaught ==
  /\ Running
  /\ Stmt.raises
  /\ ReadsBound(Stmt)
  /\ error' = "LibraryError"
  /\ pc' = pc + 1
  /\ UNCHANGED <<nb, status, ran, ns, shown, trace, deblur, tomo>>

\* A statement that runs library code raises.  No cell catches anything: the
\* run ends at this statement, which binds and modifies nothing.
LibraryRaise ==
  /\ Running
  /\ Stmt.raises
  /\ ReadsBound(Stmt)
  /\ status' = "failed"
  /\ error' = "LibraryError"
  /\ UNCHANGED <<nb, pc, ran, ns, shown, trace, deblur, tomo>>

\* import, literal assignment, shell escape, or a library call whose result
\* the model does not look into.
Plain ==
  \E op \in {"import", "literal", "shell", "call"} :
    Exec(op, UNCHANGED <<shown, deblur, tomo>>)

\* show2D(...) / plt.plot(...): what is displayed is what the objects hold now.
Display ==
  Exec("show",
       /\ shown' = shown \cup {[line |-> Stmt.line, fista |-> fista.state,
                                pdhg |-> pdhg.state, fbp |-> fbp_recon.made]}
       /\ UNCHANGED <<deblur, tomo>>)


\* ------------------------------------------------ deblurring: the PSF
\* np.arange(-(ks-1)/2, (ks-1)/2+1)**2/(2*ksigma**2) at index i.
GaussArg(i) == Rat((2 * i - (ks - 1)) * (2 * i - (ks - 1)), 8 * ksigma * ksigma)
GaussArgs == {GaussArg(i) : i \in 0..(ks - 1)}
\* np.exp(-t) on the arguments: exp is not rational, so any profile it may
\* take is allowed: exp(-0) = 1, and exp(-t) is positive and strictly
\* decreasing in t.  A weight is the float f[t]/2^GaussBits.
GaussProfiles ==
  {f \in [GaussArgs -> 1..Pow2(GaussBits)] :
     /\ f[Rat(0, 1)] = Pow2(GaussBits)
     /\ \A s, t \in GaussArgs : RLt(s, t) => f[t] < f[s]}

\* w = np.exp(-np.arange(...)**2/(2*ksigma**2))
ExpWeights ==
  \E f \in GaussProfiles :
    Exec("exp",
         /\ w' = FromRats([x \in {<<i>> : i \in 0..(ks - 1)} |->
                             Fl(Rat(f[GaussArg(x[1])], Pow2(GaussBits)))],
                          <<ks>>)
         /\ UNCHANGED <<shown, PSF, fista, tomo>>)

\* w.shape = (ks,1)
Reshaped(a, rows) ==
  [num |-> [x \in {<<i, 0>> : i \in 0..(rows - 1)} |-> a.num[<<x[1]>>]],
   den |-> a.den, shape |-> <<rows, 1>>]
Reshape ==
  Exec("reshape",
       /\ w' = Reshaped(w, ks)
       /\ UNCHANGED <<shown, PSF, fista, tomo>>)

\* PSF = w*np.transpose(w)
OuterProduct(a) == ArrMul(a, Transpose(a))
Outer ==
  Exec("outer",
       /\ PSF' = OuterProduct(w)
       /\ UNCHANGED <<shown, w, fista, tomo>>)

\* PSF = PSF/(PSF**2).sum()
DivideBySumOfSquares(a, order) == ArrDiv(a, ArrSum(ArrSquare(a), order))
DivSumSq ==
  \E order \in SumOrders :
    Exec("div_sumsq",
         /\ PSF' = DivideBySumOfSquares(PSF, order)
         /\ UNCHANGED <<shown, w, fista, tomo>>)

\* Mutant: the second normalisation divides by the sum of squares again.
DivideBySumOfSquaresAgain(a, order) == ArrDiv(a, ArrSum(ArrSquare(a), order))
\* PSF = PSF/PSF.sum()
DivideBySum(a, order) == ArrDiv(a, ArrSum(a, order))
DivSum ==
  \E order \in SumOrders :
    Exec("div_sum",
         /\ PSF' = DivideBySum(PSF, order)
         /\ UNCHANGED <<shown, w, fista, tomo>>)

\* ---------------------------------------------- deblurring: the solve
\* fista = FISTA(initial = ig.allocate(0), f = F, g = G, max_iteration = 200, ...)
SetUpFISTA ==
  Exec("FISTA",
       /\ fista' = [state |-> "set_up", max_iteration |-> max_iteration]
       /\ UNCHANGED <<shown, w, PSF, tomo>>)

\* fista.run() returns.
RunFISTA ==
  Exec("fista_run",
       /\ fista' = [fista EXCEPT !.state = "stopped"]
       /\ UNCHANGED <<shown, w, PSF, tomo>>)


\* ------------------------------------------ tomography: the sinogram
Pixels == 1..SinoLen
NormValues == {Fl(Rat(n, d)) : n \in 1..MaxNorm, d \in {1, 2}}
tomoRest == <<fbp_recon, f1, normK, sigma, tau, pdhg>>

\* A = ProjectionOperator(ig, ag, device = 'gpu')
BuildProjectionOperator ==
  Exec("ProjectionOperator",
       /\ ops' = [ops EXCEPT !["A"] = [made |-> TRUE, blocks |-> <<>>]]
       /\ UNCHANGED <<shown, deblur, sino, n1, noisy_sino, tomoRest>>)

\* sino = A.direct(phantom): the projections of a non-negative phantom.
Project ==
  \E s \in [Pixels -> {0, MaxSino}] :
    Exec("direct",
         /\ sino' = s
         /\ UNCHANGED <<shown, deblur, ops, n1, noisy_sino, tomoRest>>)

\* n1 = np.random.normal(gaussian_mean, gaussian_var, size = ag.shape)
DrawNoise ==
  \E n \in [Pixels -> (-MaxNoise)..MaxNoise] :
    Exec("normal",
         /\ n1' = n
         /\ UNCHANGED <<shown, deblur, ops, sino, noisy_sino, tomoRest>>)

\* noisy_sino = ag.allocate()
Allocate ==
  Exec("allocate",
       /\ noisy_sino' = [i \in Pixels |-> 0]
       /\ UNCHANGED <<shown, deblur, ops, sino, n1, tomoRest>>)

\* noisy_sino.fill(n1 + sino.array)
Fill ==
  Exec("fill",
       /\ noisy_sino' = [i \in DOMAIN noisy_sino |-> n1[i] + sino[i]]
       /\ UNCHANGED <<shown, deblur, ops, sino, n1, tomoRest>>)

\* Mutant: the mask selects the positive entries.
ClippedPositive(a) == [i \in DOMAIN a |-> IF a[i] > 0 THEN 0 ELSE a[i]]
\* noisy_sino.array[noisy_sino.array<0]=0
Clipped(a) == [i \in DOMAIN a |-> IF a[i] < 0 THEN 0 ELSE a[i]]
Clip ==
  Exec("clip",
       /\ noisy_sino' = Clipped(noisy_sino)
       /\ UNCHANGED <<shown, deblur, ops, sino, n1, tomoRest>>)

\* fbp_recon = FBP(ig, ag, device = 'cpu')(noisy_sino)
RunFBP ==
  Exec("FBP",
       /\ fbp_recon' = [made |-> TRUE, data |-> noisy_sino]
       /\ UNCHANGED <<shown, deblur, ops, sino, n1, noisy_sino,
                      f1, normK, sigma, tau, pdhg>>)

\* ----------------------------------------------- tomography: the solve
\* Grad = GradientOperator(ig)
BuildGradient ==
  Exec("GradientOperator",
       /\ ops' = [ops EXCEPT !["Grad"] = [made |-> TRUE, blocks |-> <<>>]]
       /\ UNCHANGED <<shown, deblur, sino, n1, noisy_sino, tomoRest>>)

\* K = BlockOperator(A, Grad): the column of the operators A and Grad.
BuildBlockOperator ==
  Exec("BlockOperator",
       /\ ops' = [ops EXCEPT !["K"] = [made |-> TRUE, blocks |-> <<"A", "Grad">>]]
       /\ UNCHANGED <<shown, deblur, sino, n1, noisy_sino, tomoRest>>)

\* f1 = 0.5 * L2NormSquared(b=noisy_sino): f1 refers to the object noisy_sino.
BuildFidelity ==
  Exec("L2NormSquared",
       /\ f1' = "noisy_sino"
       /\ UNCHANGED <<shown, deblur, ops, sino, n1, noisy_sino,
                      fbp_recon, normK, sigma, tau, pdhg>>)

\* normK = K.norm(): the library's estimate of the norm of K, some positive
\* float.
ComputeNorm ==
  \E v \in NormValues :
    Exec("norm",
         /\ normK' = [of |-> "K", val |-> v]
         /\ UNCHANGED <<shown, deblur, ops, sino, n1, noisy_sino,
                        fbp_recon, f1, sigma, tau, pdhg>>)

\* Mutant: 1./normK**2
StepSizeSquared(n) == FDiv(Rat(1, 1), FMul(n, n))
\* 1./normK
StepSize(n) == FDiv(Rat(1, 1), n)
\* sigma = 1./normK
SetSigma ==
  Exec("sigma",
       /\ sigma' = StepSize(normK.val)
       /\ UNCHANGED <<shown, deblur, ops, sino, n1, noisy_sino,
                      fbp_recon, f1, normK, tau, pdhg>>)

\* tau = 1./normK
SetTau ==
  Exec("tau",
       /\ tau' = StepSize(normK.val)
       /\ UNCHANGED <<shown, deblur, ops, sino, n1, noisy_sino,
                      fbp_recon, f1, normK, sigma, pdhg>>)

\* pdhg = PDHG(f = f, g = g, operator = K, sigma = sigma, tau = tau,
\*             max_iteration = 200, update_objective_interval = 50)
SetUpPDHG ==
  Exec("PDHG",
       /\ pdhg' = [state |-> "set_up", operator |-> "K", sigma |-> sigma,
                   tau |-> tau, max_iteration |-> max_iteration, data |-> <<>>]
       /\ UNCHANGED <<shown, deblur, ops, sino, n1, noisy_sino,
                      fbp_recon, f1, normK, sigma, tau>>)

\* pdhg.run(verbose=2) returns: the solve has used the data f1 refers to.
RunPDHG ==
  Exec("pdhg_run",
       /\ pdhg' = [pdhg EXCEPT !.state = "stopped",
                               !.data = IF f1 = "noisy_sino" THEN noisy_sino ELSE <<>>]
       /\ UNCHANGED <<shown, deblur, ops, sino, n1, noisy_sino,
                      fbp_recon, f1, normK, sigma, tau>>)

\* ------------------------------------------------------ specification
Next ==
  \/ \E n \in Notebooks : OpenNotebook(n)
  \/ Plain
  \/ Display
  \/ LibraryRaise
  \/ Finish
  \/ ExpWeights
  \/ Reshape
  \/ Outer
  \/ DivSumSq
  \/ DivSum
  \/ SetUpFISTA
  \/ RunFISTA
  \/ BuildProjectionOperator
  \/ Project
  \/ DrawNoise
  \/ Allocate
  \/ Fill
  \/ Clip
  \/ RunFBP
  \/ BuildGradient
  \/ BuildBlockOperator
  \/ BuildFidelity
  \/ ComputeNorm
  \/ SetSigma
  \/ SetTau
  \/ SetUpPDHG
  \/ RunPDHG

Spec == Init /\ [][Next]_vars


\* ------------------------------------------------------------- claims
IsPrefix(s, t) == Len(s) <= Len(t) /\ \A i \in 1..Len(s) : s[i] = t[i]
NotSetup(step) == step # "setup"
\* The pipeline steps the run has entered, in order (the set-up cells apart).
Steps == SelectSeq(trace, NotSetup)
\* Every name the next statement reads was bound by this notebook.
ReadsOwn == Running => \A x \in Stmt.reads : ns[x].owner = nb

DeblurringOrder == <<"load", "psf", "blur_operator", "noise", "fista", "display">>
TomographyOrder ==
  <<"geometry", "phantom", "projection_operator", "sinogram", "fbp", "pdhg", "compare">>

\* C1: in a run of the deblurring notebook the steps load image, build PSF,
\* build blur operator, add noise, run FISTA, display are entered in this
\* order, none before the one before it is over and none twice (the displays
\* of the PSF and of the noisy image belong to the steps that made them); no
\* statement reads a name that an earlier statement of the notebook has not
\* bound; FISTA exists only once blurred_noisy is bound; and the final display
\* shows the solution of a FISTA run that has returned.
C1_DeblurringOrder ==
  nb = 1 =>
    /\ IsPrefix(Steps, DeblurringOrder)
    /\ error # "NameError"
    /\ ReadsOwn
    /\ fista.state # "none" => ns["blurred_noisy"].owner = 1
    /\ \A d \in shown : d.line = 155 => d.fista = "stopped"

C1_Witness ==
  /\ nb = 1 /\ status = "done"
  /\ Steps = DeblurringOrder
  /\ \E d \in shown : d.line = 155 /\ d.fista = "stopped"

\* C2: in a run of the tomography notebook the steps geometry, phantom,
\* projection operator, noisy sinogram, FBP, PDHG, display-and-compare are
\* entered in this order, none before the one before it is over and none
\* twice; no statement reads a name that an earlier statement of the notebook
\* has not bound; and whatever the comparison cell shows, it shows when
\* fbp_recon has been made and pdhg.run has returned.
C2_TomographyOrder ==
  nb = 2 =>
    /\ IsPrefix(Steps, TomographyOrder)
    /\ error # "NameError"
    /\ ReadsOwn
    /\ \A d \in shown : d.line >= 515 => d.fbp /\ d.pdhg = "stopped"

C2_Witness ==
  /\ nb = 2 /\ status = "done"
  /\ Steps = TomographyOrder
  /\ \E d \in shown : d.line = 521 /\ d.fbp /\ d.pdhg = "stopped"

FailedLine == Cells(nb)[pc].line
\* C5: once a library call has raised, the run has failed at that statement:
\* nothing this run bound or modified comes from the failing statement or a
\* later one, nothing was displayed by them, the results of the failing and
\* later steps (sino, fbp_recon, the output of the solver runs) do not exist,
\* and no further step is taken.
C5_Stops ==
  error = "LibraryError" =>
    /\ status = "failed"
    /\ pc \in 1..Len(Cells(nb))
    /\ Cells(nb)[pc].raises
    /\ \A x \in Names : ns[x].owner = nb => ns[x].mod < FailedLine
    /\ \A d \in shown : d.line < FailedLine
    /\ FailedLine <= 145 => fista.state # "stopped"
    /\ FailedLine <= 365 => sino = <<>>
    /\ FailedLine <= 404 => ~fbp_recon.made
    /\ FailedLine <= 490 => pdhg.state # "stopped"
C5_Uncaught == [](C5_Stops) /\ [][error # "LibraryError"]_vars

\* ProjectionOperator(ig, ag, device = 'gpu') has raised.
C5_Witness ==
  /\ error = "LibraryError" /\ nb = 2 /\ FailedLine = 362
  /\ ~ops["A"].made /\ sino = <<>> /\ ns["phantom"].owner = 2

Index == 0..(ks - 1)
PSFFinal == nb = 1 /\ ns["PSF"].owner = 1 /\ ns["PSF"].def = 105
\* The sum of the entries of the final PSF, exactly.
PSFTotal == Rat(SumOver(PSF.num, DOMAIN PSF.num), PSF.den)
\* (w_i w_j) / sum_kl (w_k w_l), exactly.
Normalised(i, j) ==
  LET s == SumOver(w.num, DOMAIN w.num)
  IN  Rat(w.num[<<i, 0>>] * w.num[<<j, 0>>], s * s)
\* 1 - 32 u, with u = 2^-Precision the unit roundoff.
Slack == Rat(Pow2(Precision - 5) - 1, Pow2(Precision - 5))
\* x and y agree to a relative error of 32 u.
Close(x, y) == RLeq(RMul(Slack, y), x) /\ RLeq(RMul(Slack, x), y)

NoisyFinal == ns["noisy_sino"].owner = 2 /\ ns["noisy_sino"].mod = 375
\* C8: once the clipping statement has run, every entry of noisy_sino is 0
\* where noise plus sinogram was below 0 and is noise plus sinogram elsewhere,
\* hence non-negative; no later statement modifies noisy_sino; FBP is given
\* this array and the PDHG run uses this same array.
C8_NoisySinogram ==
  nb = 2 =>
    /\ ns["noisy_sino"].mod <= 375
    /\ NoisyFinal =>
         \A i \in Pixels :
           /\ n1[i] + sino[i] < 0 => noisy_sino[i] = 0
           /\ n1[i] + sino[i] >= 0 => noisy_sino[i] = n1[i] + sino[i]
           /\ noisy_sino[i] >= 0
    /\ fbp_recon.made => NoisyFinal /\ fbp_recon.data = noisy_sino
    /\ f1 # "" => NoisyFinal /\ f1 = "noisy_sino"
    /\ pdhg.state = "stopped" => pdhg.data = noisy_sino /\ pdhg.data = fbp_recon.data

C8_Witness ==
  /\ nb = 2 /\ pdhg.state = "stopped"
  /\ \E i, j \in Pixels : n1[i] + sino[i] < 0 /\ n1[j] + sino[j] > 0

\* sigma * tau * normK^2, exactly.
StepProduct ==
  RMul(RMul(pdhg.sigma, pdhg.tau), RMul(normK.val, normK.val))
PDHGSetUp == nb = 2 /\ pdhg.state # "none"
=============================================================================
